---- MODULE Spec2Model ----
(***************************************************************************)
(* Model of the singly linked list of src/linkedlist.h.                    *)
(*                                                                         *)
(* The heap is a sequence of cells; a cell's address is its index, NULL is *)
(* 0.  malloc appends a cell and never reuses an address, free marks it.   *)
(* Each C function is an operator from the record of the program state to  *)
(* the record after the call, translated statement by statement; an action *)
(* applies one function to the current state.  Dereferencing NULL traps:   *)
(* the call stops where it is and the state is marked crashed.             *)
(*                                                                         *)
(* TLC's integers have 32 bits, so the machine widths are scaled down:     *)
(* uint32_t arithmetic is done modulo UINT32_MOD and LIST_TAIL stands for  *)
(* INT64_MAX.  The code depends only on the wrap of currentSize - 1 at 0   *)
(* and on the order  sizes < UINT32_MOD - 1 < LIST_TAIL,  which is kept.   *)
(***************************************************************************)
EXTENDS Integers, Sequences, FiniteSets, TLC

\* bounds of the model: the number of malloc calls of a run, the largest plain position
MaxCells == 4
MaxPos == 2

\* program constants
NULL == 0
\* #define LIST_TAIL INT64_MAX, scaled to 2^30 - 1
LIST_TAIL == 1073741823
\* the modulus of uint32_t currentSize, scaled to 2^20
UINT32_MOD == 1048576

VARIABLES head, currentSize, cells, handed, crashed, last, hist

vars == <<head, currentSize, cells, handed, crashed, last, hist>>

\* struct Cell_t, with the allocator's mark
Cell_t(v, n) == [value |-> v, next |-> n, freed |-> FALSE]

\* struct LinkedList_t together with the heap it lives in
LinkedList_t(h, n, cs, hd, cr) ==
  [head |-> h, currentSize |-> n, cells |-> cs, handed |-> hd, crashed |-> cr]

St == LinkedList_t(head, currentSize, cells, handed, crashed)

\* void *value arguments: NULL, or the address of a payload no earlier call was given
Values == {NULL, Len(cells) + 1}
\* size_t position arguments
Positions == (0..MaxPos) \cup {LIST_TAIL}

\* (struct Cell_t *)malloc(sizeof(struct Cell_t)); value and next are set by the caller
Malloc(s, v) == [s EXCEPT !.cells = Append(@, Cell_t(v, NULL))]

\* free(c): the cell goes back to the allocator, its contents are no longer the program's
Free_cell(s, c) == [s EXCEPT !.cells[c] = [value |-> NULL, next |-> NULL, freed |-> TRUE]]

\* a NULL pointer is dereferenced: the process traps
Crash(s) == [s EXCEPT !.crashed = TRUE]

\* uint32_t arithmetic
U32(n) == n % UINT32_MOD

\* a function's result: the state after the call and the returned pointer
Res(s, r) == [st |-> s, ret |-> r]

Empty(s) == s.head = NULL /\ s.currentSize = 0

\* while (counter.pivot->next != NULL) counter.pivot = counter.pivot->next;
RECURSIVE LastCell(_, _)
LastCell(cs, pivot) ==
  IF cs[pivot].next # NULL THEN LastCell(cs, cs[pivot].next) ELSE pivot

\* PushBack that links the new cell behind head without walking to the last cell
PushBackAfterHead(s, value) ==
  LET s1 == Malloc(s, value)
      currentCell == Len(s1.cells)
  IN IF s1.head = NULL
       THEN [s1 EXCEPT !.head = currentCell, !.currentSize = 1]
       ELSE [s1 EXCEPT !.cells[s1.head].next = currentCell,
                       !.currentSize = U32(@ + 1)]

PushBack(s, value) ==
  LET s1 == Malloc(s, value)
      currentCell == Len(s1.cells)
  IN IF s1.head = NULL
       THEN [s1 EXCEPT !.head = currentCell, !.currentSize = 1]
       ELSE LET pivot == LastCell(s1.cells, s1.head)
            IN [s1 EXCEPT !.cells[pivot].next = currentCell,
                          !.currentSize = U32(@ + 1)]

\* PushFront that forgets list->currentSize++ on a non-empty list
PushFrontNoCount(s, value) ==
  LET s1 == Malloc(s, value)
      currentCell == Len(s1.cells)
  IN IF s1.head = NULL
       THEN [s1 EXCEPT !.head = currentCell, !.currentSize = 1]
       ELSE [s1 EXCEPT !.cells[currentCell].next = s1.head,
                       !.head = currentCell]

PushFront(s, value) ==
  LET s1 == Malloc(s, value)
      currentCell == Len(s1.cells)
  IN IF s1.head = NULL
       THEN [s1 EXCEPT !.head = currentCell, !.currentSize = 1]
       ELSE [s1 EXCEPT !.cells[currentCell].next = s1.head,
                       !.head = currentCell,
                       !.currentSize = U32(@ + 1)]

\* if (position == LIST_TAIL) position = list->currentSize - 1;
Resolve(s, position) ==
  IF position = LIST_TAIL THEN U32(s.currentSize - 1) ELSE position

\* position < 0 || position > list->currentSize - 1, position being unsigned
OutOfBounds(s, position) == position > U32(s.currentSize - 1)

\* while (counter.currentPosition != position)
\*   { beforeTarget = counter.pivot; counter.pivot = counter.pivot->next; ++counter.currentPosition; }
RECURSIVE Walk(_, _, _, _, _)
Walk(cs, pivot, beforeTarget, currentPosition, position) ==
  IF currentPosition = position
    THEN [pivot |-> pivot, beforeTarget |-> beforeTarget, trap |-> FALSE]
    ELSE IF pivot = NULL
      THEN [pivot |-> pivot, beforeTarget |-> beforeTarget, trap |-> TRUE]
      ELSE Walk(cs, cs[pivot].next, pivot, currentPosition + 1, position)

\* RemoveAt whose bounds check reads position > list->currentSize
RemoveAtLooseBound(s, position0) ==
  LET position == Resolve(s, position0)
  IN IF Empty(s) THEN s
     ELSE IF position > s.currentSize THEN s
     ELSE LET w == Walk(s.cells, s.head, NULL, 0, position)
          IN IF w.trap \/ w.pivot = NULL \/ w.beforeTarget = NULL
               THEN Crash(s)
               ELSE LET afterTarget == s.cells[w.pivot].next
                    IN Free_cell([s EXCEPT !.cells[w.beforeTarget].next = afterTarget],
                                 w.pivot)

RemoveAt(s, position0) ==
  LET position == Resolve(s, position0)
  IN IF Empty(s) THEN s
     ELSE IF OutOfBounds(s, position) THEN s
     ELSE LET w == Walk(s.cells, s.head, NULL, 0, position)
          IN IF w.trap \/ w.pivot = NULL \/ w.beforeTarget = NULL
               THEN Crash(s)
               ELSE LET afterTarget == s.cells[w.pivot].next
                    IN Free_cell([s EXCEPT !.cells[w.beforeTarget].next = afterTarget],
                                 w.pivot)

\* InsertAt whose bounds check takes list->currentSize - 1 as a signed number
InsertAtSignedBound(s, position0, value) ==
  LET position == Resolve(s, position0)
      s1 == Malloc(s, value)
      currentCell == Len(s1.cells)
  IN IF position > s1.currentSize - 1 THEN s1
     ELSE IF Empty(s1) /\ position # 0 THEN s1
     ELSE IF position = 0 THEN PushFront(s1, value)
     ELSE IF position = s1.currentSize THEN PushBack(s1, value)
     ELSE LET w == Walk(s1.cells, s1.head, NULL, 0, position)
          IN IF w.trap \/ w.beforeTarget = NULL
               THEN Crash(s1)
               ELSE [s1 EXCEPT !.cells[w.beforeTarget].next = currentCell,
                               !.cells[currentCell].next = w.pivot,
                               !.currentSize = U32(@ + 1)]

\* InsertAt whose bounds check reads position > list->currentSize
InsertAtLooseBound(s, position0, value) ==
  LET position == Resolve(s, position0)
      s1 == Malloc(s, value)
      currentCell == Len(s1.cells)
  IN IF position > s1.currentSize THEN s1
     ELSE IF Empty(s1) /\ position # 0 THEN s1
     ELSE IF position = 0 THEN PushFront(s1, value)
     ELSE IF position = s1.currentSize THEN PushBack(s1, value)
     ELSE LET w == Walk(s1.cells, s1.head, NULL, 0, position)
          IN IF w.trap \/ w.beforeTarget = NULL
               THEN Crash(s1)
               ELSE [s1 EXCEPT !.cells[w.beforeTarget].next = currentCell,
                               !.cells[currentCell].next = w.pivot,
                               !.currentSize = U32(@ + 1)]

InsertAt(s, position0, value) ==
  LET position == Resolve(s, position0)
      s1 == Malloc(s, value)
      currentCell == Len(s1.cells)
  IN IF OutOfBounds(s1, position) THEN s1
     ELSE IF Empty(s1) /\ position # 0 THEN s1
     ELSE IF position = 0 THEN PushFront(s1, value)
     ELSE IF position = s1.currentSize THEN PushBack(s1, value)
     ELSE LET w == Walk(s1.cells, s1.head, NULL, 0, position)
          IN IF w.trap \/ w.beforeTarget = NULL
               THEN Crash(s1)
               ELSE [s1 EXCEPT !.cells[w.beforeTarget].next = currentCell,
                               !.cells[currentCell].next = w.pivot,
                               !.currentSize = U32(@ + 1)]

\* GetAt without the test Empty(list) && position != 0
GetAtNoEmptyCheck(s, position0) ==
  LET position == Resolve(s, position0)
  IN IF OutOfBounds(s, position) THEN Res(s, NULL)
     ELSE IF position = 0 THEN Res(s, s.head)
     ELSE LET w == Walk(s.cells, s.head, NULL, 0, position)
          IN IF w.trap THEN Res(Crash(s), NULL) ELSE Res(s, w.pivot)

GetAt(s, position0) ==
  LET position == Resolve(s, position0)
  IN IF OutOfBounds(s, position) THEN Res(s, NULL)
     ELSE IF Empty(s) /\ position # 0 THEN Res(s, NULL)
     ELSE IF position = 0 THEN Res(s, s.head)
     ELSE LET w == Walk(s.cells, s.head, NULL, 0, position)
          IN IF w.trap THEN Res(Crash(s), NULL) ELSE Res(s, w.pivot)

RetrieveFront(s) ==
  IF Empty(s) THEN Res(s, NULL)
  ELSE IF s.head = NULL THEN Res(Crash(s), NULL)
  ELSE LET firstCell == s.head
       IN Res([s EXCEPT !.head = s.cells[firstCell].next,
                        !.cells[firstCell].next = NULL,
                        !.currentSize = U32(@ - 1),
                        !.handed = @ \cup {firstCell}],
              firstCell)

\* while (counter.pivot->next != NULL) { beforeTarget = counter.pivot; counter.pivot = counter.pivot->next; }
RECURSIVE WalkToLast(_, _, _)
WalkToLast(cs, pivot, beforeTarget) ==
  IF cs[pivot].next # NULL
    THEN WalkToLast(cs, cs[pivot].next, pivot)
    ELSE [pivot |-> pivot, beforeTarget |-> beforeTarget]

RetrieveBack(s) ==
  IF Empty(s) THEN Res(s, NULL)
  ELSE IF s.head = NULL THEN Res(Crash(s), NULL)
  ELSE LET w == WalkToLast(s.cells, s.head, NULL)
       IN IF w.beforeTarget = NULL
            THEN Res(Crash(s), NULL)
            ELSE Res([s EXCEPT !.cells[w.beforeTarget].next = NULL,
                               !.cells[w.pivot].next = NULL,
                               !.currentSize = U32(@ - 1),
                               !.handed = @ \cup {w.pivot}],
                     w.pivot)

(***************************************************************************)
(* Observation of a list: the cells linked from head and their values.     *)
(***************************************************************************)
\* the addresses met from p following next, at most fuel of them
RECURSIVE ChainFrom(_, _, _)
ChainFrom(cs, p, fuel) ==
  IF p = NULL \/ fuel = 0 THEN <<>>
  ELSE <<p>> \o ChainFrom(cs, cs[p].next, fuel - 1)

\* the pointer reached from p after fuel links, NULL when the chain ended before
RECURSIVE ChainEnd(_, _, _)
ChainEnd(cs, p, fuel) ==
  IF p = NULL \/ fuel = 0 THEN p ELSE ChainEnd(cs, cs[p].next, fuel - 1)

Chain(s) == ChainFrom(s.cells, s.head, Len(s.cells))

\* a chain of distinct cells has at most Len(cells) of them
Terminates(s) == ChainEnd(s.cells, s.head, Len(s.cells)) = NULL

ValuesOf(s) == [i \in 1..Len(Chain(s)) |-> s.cells[Chain(s)[i]].value]

(***************************************************************************)
(* The program: a caller that owns one list and calls its functions.       *)
(* last is the call just made, hist the calls made so far while they were  *)
(* all PushBack, PushFront or GetAt.                                       *)
(***************************************************************************)
NoPre == [vals |-> <<>>, size |-> 0]

Call(op, pos, val, ret, pre) ==
  [op |-> op, pos |-> pos, val |-> val, ret |-> ret, pre |-> pre]

Tainted == [ok |-> FALSE, calls |-> <<>>]

Logged(op, val) ==
  IF hist.ok THEN [hist EXCEPT !.calls = Append(@, [op |-> op, val |-> val])]
  ELSE hist

Set(s) ==
  /\ head' = s.head
  /\ currentSize' = s.currentSize
  /\ cells' = s.cells
  /\ handed' = s.handed
  /\ crashed' = s.crashed

Init ==
  /\ head = NULL
  /\ currentSize = 0
  /\ cells = <<>>
  /\ handed = {}
  /\ crashed = FALSE
  /\ last = Call("none", 0, NULL, NULL, NoPre)
  /\ hist = [ok |-> TRUE, calls |-> <<>>]

CallPushBack(v) ==
  /\ ~crashed
  /\ Len(cells) + 1 <= MaxCells
  /\ Set(PushBack(St, v))
  /\ last' = Call("PushBack", 0, v, NULL,
                  [vals |-> ValuesOf(St), size |-> currentSize])
  /\ hist' = Logged("PushBack", v)

CallPushFront(v) ==
  /\ ~crashed
  /\ Len(cells) + 1 <= MaxCells
  /\ Set(PushFront(St, v))
  /\ last' = Call("PushFront", 0, v, NULL, NoPre)
  /\ hist' = Logged("PushFront", v)

CallRemoveAt(p) ==
  /\ ~crashed
  /\ Set(RemoveAt(St, p))
  /\ last' = Call("RemoveAt", p, NULL, NULL, NoPre)
  /\ hist' = Tainted

CallInsertAt(p, v) ==
  /\ ~crashed
  /\ Len(InsertAt(St, p, v).cells) <= MaxCells
  /\ Set(InsertAt(St, p, v))
  /\ last' = Call("InsertAt", p, v, NULL, NoPre)
  /\ hist' = Tainted

CallGetAt(p) ==
  /\ ~crashed
  /\ Set(GetAt(St, p).st)
  /\ last' = Call("GetAt", p, NULL, GetAt(St, p).ret, NoPre)
  /\ hist' = hist

CallRetrieveFront ==
  /\ ~crashed
  /\ Set(RetrieveFront(St).st)
  /\ last' = Call("RetrieveFront", 0, NULL, RetrieveFront(St).ret, NoPre)
  /\ hist' = Tainted

CallRetrieveBack ==
  /\ ~crashed
  /\ Set(RetrieveBack(St).st)
  /\ last' = Call("RetrieveBack", 0, NULL, RetrieveBack(St).ret, NoPre)
  /\ hist' = Tainted

Next ==
  \/ \E v \in Values : CallPushBack(v)
  \/ \E v \in Values : CallPushFront(v)
  \/ \E p \in Positions : CallRemoveAt(p)
  \/ \E p \in Positions, v \in Values : CallInsertAt(p, v)
  \/ \E p \in Positions : CallGetAt(p)
  \/ CallRetrieveFront
  \/ CallRetrieveBack

Spec == Init /\ [][Next]_vars

TypeOK ==
  /\ head \in 0..Len(cells)
  /\ currentSize \in 0..(UINT32_MOD - 1)
  /\ \A c \in 1..Len(cells) : cells[c].next \in 0..Len(cells) /\ cells[c].value \in 0..MaxCells
  /\ handed \subseteq 1..Len(cells)
  /\ crashed \in BOOLEAN

(***************************************************************************)
(* Reserve, DryNulls and Free.  malloc does not initialise what it returns: *)
(* a field that is read or handed back before the code wrote it holds      *)
(* either zero or WILD, an address of no cell.  Following WILD traps.       *)
(***************************************************************************)
\* bound of the model: the largest argument of Reserve
MaxReserve == 3

WILD == UINT32_MOD - 1

\* what a field left as malloc returned it may hold
Indeterminate == {NULL, WILD}

\* while (counter.pivot->next != NULL)
\*   { current = counter.pivot; counter.pivot = counter.pivot->next; free(current); }
RECURSIVE FreeLoop(_, _)
FreeLoop(s, pivot) ==
  IF s.cells[pivot].next # NULL
    THEN FreeLoop(Free_cell(s, pivot), s.cells[pivot].next)
    ELSE s

\* free(list): the record goes back to the allocator; the model keeps no dangling head
Free_list(s) == [s EXCEPT !.head = NULL, !.currentSize = 0]

Free(s) ==
  IF s.head = NULL THEN Free_list(s)
  ELSE Free_list(FreeLoop(s, s.head))

\* the cells Reserve's loop adds behind pivot until currentPosition is positions - 1;
\* the next field of the cell it stops at is never written
RECURSIVE ReserveLoop(_, _, _, _, _)
ReserveLoop(cs, pivot, currentPosition, positions, gnext) ==
  IF currentPosition # positions - 1
    THEN LET new == Len(cs) + 1
         IN ReserveLoop(Append([cs EXCEPT ![pivot].next = new],
                               [value |-> NULL, next |-> gnext, freed |-> FALSE]),
                        new, currentPosition + 1, positions, gnext)
    ELSE cs

\* gvalue, gnext: what malloc left in the head's value and in a cell's next
Reserve(s, positions, gvalue, gnext) ==
  LET first == Len(s.cells) + 1
      cs0 == Append(s.cells, [value |-> gvalue, next |-> gnext, freed |-> FALSE])
  IN [s EXCEPT !.cells = ReserveLoop(cs0, first, 0, positions, gnext),
               !.head = first,
               !.currentSize = U32(positions)]

\* PushBack(newList, value), newList being the record [head, currentSize] n
PushBackNew(s, n, value) ==
  IF n.head = WILD
    THEN [st |-> Crash(s), n |-> n]
    ELSE LET r == PushBack([s EXCEPT !.head = n.head, !.currentSize = n.currentSize], value)
         IN [st |-> [s EXCEPT !.cells = r.cells],
             n |-> [head |-> r.head, currentSize |-> r.currentSize]]

\* while (counter.currentPosition != list->currentSize)
\*   { if (counter.pivot->value != NULL) PushBack(newList, counter.pivot->value);
\*     counter.pivot = counter.pivot->next; ++counter.currentPosition; }
RECURSIVE DryLoop(_, _, _, _)
DryLoop(s, n, pivot, currentPosition) ==
  IF currentPosition = s.currentSize THEN [st |-> s, n |-> n]
  ELSE IF pivot = NULL THEN [st |-> Crash(s), n |-> n]
  ELSE LET r == IF s.cells[pivot].value # NULL
                  THEN PushBackNew(s, n, s.cells[pivot].value)
                  ELSE [st |-> s, n |-> n]
       IN IF r.st.crashed THEN r
          ELSE DryLoop(r.st, r.n, r.st.cells[pivot].next, currentPosition + 1)

\* ghead, gsize: what malloc left in newList->head and newList->currentSize
DryNulls(s, ghead, gsize) ==
  LET r == DryLoop(s, [head |-> ghead, currentSize |-> gsize], s.head, 0)
  IN IF r.st.crashed THEN r.st
     ELSE [Free(r.st) EXCEPT !.head = r.n.head, !.currentSize = r.n.currentSize]

\* the caller is still building its list: no DryNulls, Free or Reserve yet
Building == last.op \in {"none", "PushBack", "PushFront"}

BuildPushBack(v) == Building /\ CallPushBack(v)

BuildPushFront(v) == Building /\ CallPushFront(v)

\* list = Reserve(positions), the program's first call
CallReserve(positions, gvalue, gnext) ==
  /\ last.op = "none"
  /\ Set(Reserve(St, positions, gvalue, gnext))
  /\ last' = Call("Reserve", positions, NULL, NULL, NoPre)
  /\ hist' = Tainted

\* list = DryNulls(list), the program's last call
CallDryNulls(ghead, gsize) ==
  /\ Building
  /\ Set(DryNulls(St, ghead, gsize))
  /\ last' = Call("DryNulls", 0, NULL, NULL, NoPre)
  /\ hist' = Tainted

\* Free(list), the program's last call
CallFree ==
  /\ Building
  /\ Set(Free(St))
  /\ last' = Call("Free", 0, NULL, NULL, NoPre)
  /\ hist' = Tainted

NextLife ==
  \/ \E v \in Values : BuildPushBack(v)
  \/ \E v \in Values : BuildPushFront(v)
  \/ \E n \in 1..MaxReserve, gv \in Indeterminate, gn \in Indeterminate : CallReserve(n, gv, gn)
  \/ \E gh \in Indeterminate, gs \in Indeterminate : CallDryNulls(gh, gs)
  \/ CallFree

SpecLife == Init /\ [][NextLife]_vars

(***************************************************************************)
(* Sequences the claims compare lists with.  Positions are zero-based.     *)
(***************************************************************************)
\* seq without its element at position i
RemoveIndex(seq, i) ==
  [k \in 1..(Len(seq) - 1) |-> IF k <= i THEN seq[k] ELSE seq[k + 1]]

\* seq with v put at position i, the elements from i on moved up by one
InsertIndex(seq, i, v) ==
  [k \in 1..(Len(seq) + 1) |->
     IF k <= i THEN seq[k] ELSE IF k = i + 1 THEN v ELSE seq[k - 1]]

\* the calls so far were all PushBack or GetAt
OnlyPushBack ==
  hist.ok /\ \A k \in 1..Len(hist.calls) : hist.calls[k].op = "PushBack"

\* the position RemoveAt works on, as an integer: LIST_TAIL means size - 1
Target(position) == IF position = LIST_TAIL THEN currentSize - 1 ELSE position

\* C1: in every reachable state, size == 0 holds if and only if head is absent.
C1_SizeZeroIffHeadAbsent == (currentSize = 0) <=> (head = NULL)

\* C2: in every reachable state the chain from head has exactly size cells and
\* ends in an absent next link.
C2_ChainHasSizeCells == Terminates(St) /\ Len(Chain(St)) = currentSize

\* C3: removeAt(position) with position in [0, size-1] on a non-empty list removes
\* exactly the element at that position, keeps the others in order and
\* decrements size by 1.
C3_RemoveAtRemovesOne ==
  [][(/\ last'.op = "RemoveAt"
      /\ ~Empty(St)
      /\ last'.pos \in 0..(currentSize - 1))
     => (/\ ~crashed'
         /\ ValuesOf(St') = RemoveIndex(ValuesOf(St), last'.pos)
         /\ currentSize' = currentSize - 1)]_vars

\* C4: insertAt(size, v) succeeds and leaves the list as pushBack(v) would.
C4_InsertAtSizeIsPushBack ==
  [][(last'.op = "InsertAt" /\ last'.pos = currentSize)
     => (/\ ~crashed'
         /\ ValuesOf(St') = ValuesOf(PushBack(St, last'.val))
         /\ ValuesOf(St') = Append(ValuesOf(St), last'.val)
         /\ currentSize' = PushBack(St, last'.val).currentSize)]_vars

\* C5: pushBack(v) immediately followed by retrieveBack() returns a cell holding
\* v and leaves size and the values as they were before the pushBack.
C5_PushBackRetrieveBack ==
  [][(last.op = "PushBack" /\ last'.op = "RetrieveBack")
     => (/\ ~crashed'
         /\ last'.ret # NULL
         /\ cells'[last'.ret].value = last.val
         /\ currentSize' = last.pre.size
         /\ ValuesOf(St') = last.pre.vals)]_vars

\* C6: after n pushBack and pushFront calls from the empty list, size equals n
\* and isEmpty() is false exactly when n > 0.
C6_SizeCountsPushes ==
  hist.ok => /\ currentSize = Len(hist.calls)
             /\ (~Empty(St) <=> Len(hist.calls) > 0)

C6_Witness ==
  /\ hist.ok
  /\ Len(hist.calls) = 3
  /\ \E j, k \in 1..3 : hist.calls[j].op = "PushBack" /\ hist.calls[k].op = "PushFront"
  /\ last.op = "PushFront"
  /\ currentSize = 3
  /\ ~Empty(St)

\* C7: after pushBack(v0), ..., pushBack(vn-1) from the empty list, getAt(i)
\* returns a cell whose value is vi, for every i in [0, n-1].
C7_PushBackKeepsOrder ==
  OnlyPushBack =>
    /\ \A i \in 0..(Len(hist.calls) - 1) :
         /\ ~GetAt(St, i).st.crashed
         /\ GetAt(St, i).ret # NULL
         /\ cells[GetAt(St, i).ret].value = hist.calls[i + 1].val
    /\ (last.op = "GetAt" /\ last.pos \in 0..(Len(hist.calls) - 1))
         => /\ last.ret # NULL
            /\ cells[last.ret].value = hist.calls[last.pos + 1].val

C7_Witness ==
  /\ OnlyPushBack
  /\ Len(hist.calls) = 3
  /\ last.op = "GetAt"
  /\ last.pos = 2
  /\ last.ret # NULL
  /\ hist.calls[3].val # NULL
  /\ hist.calls[1].val # NULL
  /\ cells[last.ret].value = hist.calls[3].val

\* C8: removeAt is a no-op (head, chain and size unchanged) whenever the list is
\* empty, for every position argument, or the position falls outside [0, size-1].
C8_RemoveAtNoOp ==
  [][(/\ last'.op = "RemoveAt"
      /\ \/ Empty(St)
         \/ Target(last'.pos) \notin 0..(currentSize - 1))
     => (/\ head' = head
         /\ cells' = cells
         /\ currentSize' = currentSize
         /\ ~crashed')]_vars

C8_Witness ==
  /\ last.op = "RemoveAt"
  /\ ~crashed
  /\ currentSize = 2
  /\ Len(Chain(St)) = 2
  /\ last.pos = 2

\* C9: retrieveFront() on an empty list returns absence and changes nothing; on
\* a non-empty list it returns the former head with its next link absent, head
\* becomes the former second cell, size is decremented by 1 and the remaining
\* values keep their order.
C9_RetrieveFront ==
  [][(last'.op = "RetrieveFront")
     => IF Empty(St)
          THEN /\ last'.ret = NULL
               /\ St' = St
          ELSE /\ ~crashed'
               /\ head # NULL
               /\ last'.ret = head
               /\ cells'[head].next = NULL
               /\ head' = cells[head].next
               /\ currentSize' = currentSize - 1
               /\ ValuesOf(St') = Tail(ValuesOf(St))]_vars

\* C10: insertAt(position, v) with 0 < position <= size-1 on a non-empty list
\* puts v at index position, leaves the elements below it unchanged, moves the
\* elements from position on up by one and increments size by exactly 1.
C10_InsertAtMiddle ==
  [][(/\ last'.op = "InsertAt"
      /\ ~Empty(St)
      /\ last'.pos \in 1..(currentSize - 1))
     => (/\ ~crashed'
         /\ last'.pos <= Len(ValuesOf(St))
         /\ ValuesOf(St') = InsertIndex(ValuesOf(St), last'.pos, last'.val)
         /\ currentSize' = currentSize + 1)]_vars

\* C11: insertAt(0, v) on an empty list succeeds and yields a list of size 1
\* whose only cell holds v and has an absent next link.
C11_InsertAtZeroOnEmpty ==
  [][(last'.op = "InsertAt" /\ last'.pos = 0 /\ Empty(St))
     => (/\ ~crashed'
         /\ currentSize' = 1
         /\ head' # NULL
         /\ cells'[head'].value = last'.val
         /\ cells'[head'].next = NULL
         /\ ~cells'[head'].freed
         /\ Chain(St') = <<head'>>)]_vars

C11_Witness ==
  /\ last.op = "InsertAt"
  /\ last.pos = 0
  /\ last.val # NULL
  /\ Len(cells) = 2
  /\ currentSize = 1
  /\ ValuesOf(St) = <<last.val>>

\* the cells that existed before a call are as they were
OldCellsKept == SubSeq(cells', 1, Len(cells)) = cells

\* C12: insertAt is a no-op (head, chain and size unchanged) when the list is
\* non-empty and the position, after TAIL resolution, is greater than size-1,
\* and when the list is empty and the position is not 0.
C12_InsertAtNoOp ==
  [][(/\ last'.op = "InsertAt"
      /\ \/ ~Empty(St) /\ Target(last'.pos) > currentSize - 1
         \/ Empty(St) /\ last'.pos # 0)
     => (/\ ~crashed'
         /\ head' = head
         /\ currentSize' = currentSize
         /\ OldCellsKept
         /\ Chain(St') = Chain(St)
         /\ ValuesOf(St') = ValuesOf(St))]_vars

C12_Witness ==
  /\ last.op = "InsertAt"
  /\ last.pos = 2
  /\ ~crashed
  /\ currentSize = 2
  /\ Len(Chain(St)) = 2
  /\ last.val # NULL
  /\ \A i \in 1..2 : ValuesOf(St)[i] # last.val

\* C13: on every reachable non-empty list getAt(TAIL) returns the same cell as
\* getAt(size-1), and that cell is the last cell of the chain.
C13_GetAtTailIsLast ==
  (last.op = "GetAt" /\ last.pos = LIST_TAIL /\ ~Empty(St))
    => (/\ ~crashed
        /\ last.ret # NULL
        /\ last.ret = GetAt(St, currentSize - 1).ret
        /\ cells[last.ret].next = NULL
        /\ last.ret = Chain(St)[Len(Chain(St))])

\* C14: getAt never mutates the list, and it returns absence whenever the list
\* is empty, for every position argument, or the position is outside [0, size-1].
C14_GetAtFrame ==
  [][(last'.op = "GetAt")
     => (/\ head' = head
         /\ cells' = cells
         /\ currentSize' = currentSize
         /\ handed' = handed
         /\ (Empty(St) \/ Target(last'.pos) \notin 0..(currentSize - 1))
              => (last'.ret = NULL /\ ~crashed'))]_vars

C14_Witness ==
  /\ last.op = "GetAt"
  /\ last.pos = LIST_TAIL
  /\ Empty(St)
  /\ last.ret = NULL
  /\ ~crashed
  /\ Len(cells) >= 2

\* the non-absent values of seq, in order
NonNull(seq) == SelectSeq(seq, LAMBDA v : v # NULL)

\* the addresses in a sequence of cells
Range(seq) == {seq[i] : i \in 1..Len(seq)}

\* every pointer of the list points to a cell or is NULL
Wellformed(s) ==
  /\ s.head \in 0..Len(s.cells)
  /\ \A c \in 1..Len(s.cells) : s.cells[c].next \in 0..Len(s.cells)

\* C15: compact(list) returns a new list holding exactly the non-absent values
\* of the input in their order, with size their number and a terminated chain
\* (an empty list when there are none), and the input list is destroyed.
C15_DryNullsCompacts ==
  [][(last'.op = "DryNulls")
     => (/\ ~crashed'
         /\ Wellformed(St')
         /\ Terminates(St')
         /\ ValuesOf(St') = NonNull(ValuesOf(St))
         /\ currentSize' = Len(NonNull(ValuesOf(St)))
         /\ Range(Chain(St')) \cap Range(Chain(St)) = {}
         /\ \A c \in Range(Chain(St)) : cells'[c].freed)]_vars

\* C16: for every n >= 1, reserve(n) returns a list with size n whose chain has
\* exactly n cells, each holding an absent value, the last with an absent next.
C16_ReserveMakesEmptyCells ==
  [][(last'.op = "Reserve")
     => (/\ currentSize' = last'.pos
         /\ Wellformed(St')
         /\ Terminates(St')
         /\ Len(Chain(St')) = last'.pos
         /\ \A i \in 1..Len(Chain(St')) : ValuesOf(St')[i] = NULL)]_vars

\* C17: teardown(list) releases every cell of the chain from head, the last
\* one included: no cell that was linked in the list remains allocated.
C17_FreeReleasesAllCells ==
  [][(last'.op = "Free")
     => (\A c \in Range(Chain(St)) : cells'[c].freed)]_vars

\* C18: no call of removeAt, insertAt, getAt, retrieveFront, retrieveBack or
\* compact follows or writes through an absent link: no crash state is reached.
C18_NoCrash == crashed = FALSE

\* C19: every cell that was allocated is linked in the list's chain, was handed
\* to the caller by a retrieve operation, or has been released.
C19_CellConservation ==
  \A c \in 1..Len(cells) :
    \/ cells[c].freed
    \/ c \in handed
    \/ c \in Range(Chain(St))

\* C20: insertAt(TAIL, v) on a non-empty list puts v at index size-1, right
\* before the former last element, which stays last, and size grows by 1; on
\* an empty list it is a no-op.
C20_InsertAtTail ==
  [][(last'.op = "InsertAt" /\ last'.pos = LIST_TAIL)
     => IF Empty(St)
          THEN /\ ~crashed'
               /\ head' = head
               /\ currentSize' = currentSize
               /\ OldCellsKept
          ELSE /\ ~crashed'
               /\ currentSize' = currentSize + 1
               /\ Len(Chain(St)) >= 1
               /\ currentSize - 1 <= Len(Chain(St))
               /\ ValuesOf(St') = InsertIndex(ValuesOf(St), currentSize - 1, last'.val)
               /\ Chain(St')[Len(Chain(St'))] = Chain(St)[Len(Chain(St))]
               /\ ~(Chain(St')[currentSize] \in Range(Chain(St)))]_vars

====
